---- MODULE Spec2Model ----
(***************************************************************************)
(* Model of the frac fractal renderer: the geometry mapper, the escape     *)
(* algorithms, the intensity mapper, the region calculator and the band    *)
(* renderer of main.rs.                                                    *)
(*                                                                         *)
(* The program computes in f64.  f64 values are modelled bit-exactly       *)
(* (IEEE 754 binary64, round to nearest, ties to even), because the        *)
(* renderer's equalities are equalities of rounded values.  A mantissa     *)
(* does not fit a 32-bit integer, so magnitudes are naturals kept           *)
(* as little-endian sequences of limbs.                                    *)
(***************************************************************************)
EXTENDS Integers, Sequences, FiniteSets, TLC

Max(a, b) == IF a >= b THEN a ELSE b
Min(a, b) == IF a <= b THEN a ELSE b

(***************************************************************************)
(* Naturals of unbounded size: <<l1, ..., ln>> is the sum of l_i *         *)
(* Base^(i-1), with 0 <= l_i < Base and l_n # 0; zero is << >>.            *)
(***************************************************************************)
LimbBits == 15
Base == 2^LimbBits

RECURSIVE BFromInt(_)
BFromInt(n) == IF n = 0 THEN << >> ELSE <<n % Base>> \o BFromInt(n \div Base)

RECURSIVE BTrim(_)
BTrim(a) ==
    IF a = << >> THEN a
    ELSE IF a[Len(a)] = 0 THEN BTrim(SubSeq(a, 1, Len(a) - 1)) ELSE a

Limb(a, i) == IF i <= Len(a) THEN a[i] ELSE 0

RECURSIVE BAddC(_, _, _, _)
BAddC(a, b, i, c) ==
    IF i > Len(a) /\ i > Len(b)
    THEN (IF c = 0 THEN << >> ELSE <<c>>)
    ELSE LET s == Limb(a, i) + Limb(b, i) + c
         IN  <<s % Base>> \o BAddC(a, b, i + 1, s \div Base)

BAdd(a, b) == BAddC(a, b, 1, 0)

RECURSIVE BSubC(_, _, _, _)
BSubC(a, b, i, br) ==
    IF i > Len(a) THEN << >>
    ELSE LET d == a[i] - Limb(b, i) - br
         IN  <<(d + Base) % Base>> \o BSubC(a, b, i + 1, IF d < 0 THEN 1 ELSE 0)

\* a - b, for a >= b
BSub(a, b) == BTrim(BSubC(a, b, 1, 0))

RECURSIVE BCmpAt(_, _, _)
BCmpAt(a, b, i) ==
    IF i = 0 THEN 0
    ELSE IF a[i] > b[i] THEN 1
    ELSE IF a[i] < b[i] THEN -1
    ELSE BCmpAt(a, b, i - 1)

\* -1, 0 or 1 as a < b, a = b or a > b
BCmp(a, b) ==
    IF Len(a) > Len(b) THEN 1
    ELSE IF Len(a) < Len(b) THEN -1
    ELSE BCmpAt(a, b, Len(a))

RECURSIVE BMulSmallC(_, _, _, _)
BMulSmallC(a, k, i, c) ==
    IF i > Len(a)
    THEN (IF c = 0 THEN << >> ELSE <<c>>)
    ELSE LET p == a[i] * k + c
         IN  <<p % Base>> \o BMulSmallC(a, k, i + 1, p \div Base)

\* a * k, for 0 <= k < Base
BMulSmall(a, k) == IF k = 0 THEN << >> ELSE BMulSmallC(a, k, 1, 0)

RECURSIVE BMul(_, _)
BMul(a, b) ==
    IF a = << >> \/ b = << >> THEN << >>
    ELSE LET r == BMul(a, Tail(b))
         IN  BAdd(BMulSmall(a, b[1]), IF r = << >> THEN r ELSE <<0>> \o r)

\* a * 2^n
BShl(a, n) ==
    IF a = << >> THEN a
    ELSE [i \in 1..(n \div LimbBits) |-> 0] \o BMulSmall(a, 2^(n % LimbBits))

RECURSIVE BDivSmallR(_, _, _, _)
BDivSmallR(a, k, i, r) ==
    IF i = 0 THEN << >>
    ELSE LET cur == r * Base + a[i]
         IN  BDivSmallR(a, k, i - 1, cur % k) \o <<cur \div k>>

\* a \div k, for 0 < k <= Base
BDivSmall(a, k) == BTrim(BDivSmallR(a, k, Len(a), 0))

\* a \div 2^n
BShr(a, n) ==
    LET q == n \div LimbBits
    IN  IF q >= Len(a) THEN << >>
        ELSE BDivSmall(SubSeq(a, q + 1, Len(a)), 2^(n % LimbBits))

\* bit j of a, bit 0 the least significant
Bit(a, j) == (Limb(a, j \div LimbBits + 1) \div 2^(j % LimbBits)) % 2

\* some of the n low bits of a is set
LowNonZero(a, n) ==
    \/ \E i \in 1..Len(a) : i <= n \div LimbBits /\ a[i] # 0
    \/ Limb(a, n \div LimbBits + 1) % 2^(n % LimbBits) # 0

RECURSIVE SmallBitLen(_)
SmallBitLen(x) == IF x = 0 THEN 0 ELSE 1 + SmallBitLen(x \div 2)

BBitLen(a) ==
    IF a = << >> THEN 0
    ELSE LimbBits * (Len(a) - 1) + SmallBitLen(a[Len(a)])

\* long division, one bit of n at a time from bit j down to bit lo, continuing
\* from quotient q and remainder r: <<quotient, remainder>>
RECURSIVE BDivBits(_, _, _, _, _, _)
BDivBits(n, d, q, r, j, lo) ==
    IF j < lo THEN <<q, r>>
    ELSE LET r2 == BAdd(BMulSmall(r, 2), IF Bit(n, j) = 1 THEN <<1>> ELSE << >>)
         IN  IF BCmp(r2, d) >= 0
             THEN BDivBits(n, d, BAdd(BMulSmall(q, 2), <<1>>), BSub(r2, d), j - 1, lo)
             ELSE BDivBits(n, d, BMulSmall(q, 2), r2, j - 1, lo)

\* bring limb i of n down onto the <<quotient, remainder>> p of the limbs above it
BDivLimb(n, d, p, i) ==
    IF p[2] = << >> /\ n[i] = 0
    THEN <<IF p[1] = << >> THEN << >> ELSE <<0>> \o p[1], << >> >>
    ELSE BDivBits(n, d, p[1], p[2], i * LimbBits - 1, (i - 1) * LimbBits)

\* <<quotient, remainder>> of (n \div Base^(i-1)) by d, one limb of n at a time
RECURSIVE BDivLimbs(_, _, _)
BDivLimbs(n, d, i) ==
    IF i > Len(n) THEN << << >>, << >> >>
    ELSE BDivLimb(n, d, BDivLimbs(n, d, i + 1), i)

RECURSIVE SmallLowZeros(_)
SmallLowZeros(x) == IF x % 2 = 1 THEN 0 ELSE 1 + SmallLowZeros(x \div 2)

RECURSIVE LowZeroLimbs(_, _)
LowZeroLimbs(a, i) == IF a[i] # 0 THEN i - 1 ELSE LowZeroLimbs(a, i + 1)

\* the number of zero bits below the lowest set bit of a, for a # 0
BLowZeros(a) ==
    LET z == LowZeroLimbs(a, 1)
    IN  z * LimbBits + SmallLowZeros(a[z + 1])

\* <<n \div d, n % d>>, for d # 0.  A divisor that is a single limb times a
\* power of two is divided by limb-wise; any other by long division.
BDivMod(n, d) ==
    LET z == BLowZeros(d)
        odd == BShr(d, z)
    IN  IF Len(odd) = 1
        THEN LET q == BDivSmall(BShr(n, z), odd[1])
             IN  <<q, BSub(n, BMul(q, d))>>
        ELSE BDivLimbs(n, d, 1)

(***************************************************************************)
(* f64.  A finite value is (-1)^s * m * 2^e in canonical form: m has       *)
(* exactly Prec bits, or e = EMin and m has fewer (subnormal), or m is     *)
(* zero and e = 0.  Canonical form makes equal values equal records,       *)
(* except +0 and -0.                                                       *)
(***************************************************************************)
Prec == 53
EMin == -1074
EMax == 1024

FZero(s) == [k |-> "fin", s |-> s, m |-> << >>, e |-> 0]
FInf(s) == [k |-> "inf", s |-> s, m |-> << >>, e |-> 0]
FNaN == [k |-> "nan", s |-> 0, m |-> << >>, e |-> 0]

IsZero(a) == a.k = "fin" /\ a.m = << >>

\* the canonical form of m * 2^e, m of at most Prec bits and e >= EMin
FPack(s, m, e) ==
    IF m = << >> THEN FZero(s)
    ELSE LET l == BBitLen(m)
             m2 == IF l > Prec THEN BShr(m, 1) ELSE m
             e2 == IF l > Prec THEN e + 1 ELSE e
             up == Min(Prec - BBitLen(m2), e2 - EMin)
         IN  IF e2 + BBitLen(m2) > EMax THEN FInf(s)
             ELSE [k |-> "fin", s |-> s, m |-> BShl(m2, up), e |-> e2 - up]

\* M * 2^E rounded to nearest, ties to even
FRound(s, M, E) ==
    IF M = << >> THEN FZero(s)
    ELSE LET sh == Max(BBitLen(M) - Prec, EMin - E)
         IN  IF sh <= 0 THEN FPack(s, M, E)
             ELSE LET q == BShr(M, sh)
                      up == /\ Bit(M, sh - 1) = 1
                            /\ (LowNonZero(M, sh - 1) \/ Bit(q, 0) = 1)
                  IN  FPack(s, IF up THEN BAdd(q, <<1>>) ELSE q, E + sh)

\* usize as f64
FromInt(n) == IF n < 0 THEN FRound(1, BFromInt(-n), 0) ELSE FRound(0, BFromInt(n), 0)

FNeg(a) == IF a.k = "nan" THEN a ELSE [a EXCEPT !.s = 1 - a.s]

\* f64::abs
FAbs(a) == IF a.k = "nan" THEN a ELSE [a EXCEPT !.s = 0]

\* |a| compared to |b| for finite canonical a, b: -1, 0, 1
MagCmp(a, b) ==
    IF a.m = << >> \/ b.m = << >>
    THEN (IF a.m = b.m THEN 0 ELSE IF a.m = << >> THEN -1 ELSE 1)
    ELSE IF a.e > b.e THEN 1
    ELSE IF a.e < b.e THEN -1
    ELSE BCmp(a.m, b.m)

\* the sum of two finite nonzero values
FAddFin(a, b) ==
    LET hi == IF a.e >= b.e THEN a ELSE b
        lo == IF a.e >= b.e THEN b ELSE a
        d == hi.e - lo.e
    IN  IF d > Prec + 11 THEN hi
        ELSE LET H == BShl(hi.m, d)
                 c == BCmp(H, lo.m)
             IN  IF hi.s = lo.s THEN FRound(hi.s, BAdd(H, lo.m), lo.e)
                 ELSE IF c = 0 THEN FZero(0)
                 ELSE IF c > 0 THEN FRound(hi.s, BSub(H, lo.m), lo.e)
                 ELSE FRound(lo.s, BSub(lo.m, H), lo.e)

\* a + b
FAdd(a, b) ==
    IF a.k = "nan" \/ b.k = "nan" THEN FNaN
    ELSE IF a.k = "inf" THEN (IF b.k = "inf" /\ b.s # a.s THEN FNaN ELSE a)
    ELSE IF b.k = "inf" THEN b
    ELSE IF IsZero(a) THEN (IF IsZero(b) THEN FZero(IF a.s = 1 /\ b.s = 1 THEN 1 ELSE 0) ELSE b)
    ELSE IF IsZero(b) THEN a
    ELSE FAddFin(a, b)

\* a - b
FSub(a, b) == FAdd(a, FNeg(b))

\* a * b
FMul(a, b) ==
    LET s == (a.s + b.s) % 2
    IN  IF a.k = "nan" \/ b.k = "nan" THEN FNaN
        ELSE IF a.k = "inf" \/ b.k = "inf"
        THEN (IF IsZero(a) \/ IsZero(b) THEN FNaN ELSE FInf(s))
        ELSE IF IsZero(a) \/ IsZero(b) THEN FZero(s)
        ELSE FRound(s, BMul(a.m, b.m), a.e + b.e)

\* a / b
FDiv(a, b) ==
    LET s == (a.s + b.s) % 2
    IN  IF a.k = "nan" \/ b.k = "nan" THEN FNaN
        ELSE IF a.k = "inf" THEN (IF b.k = "inf" THEN FNaN ELSE FInf(s))
        ELSE IF b.k = "inf" THEN FZero(s)
        ELSE IF IsZero(b) THEN (IF IsZero(a) THEN FNaN ELSE FInf(s))
        ELSE IF IsZero(a) THEN FZero(s)
        ELSE LET sh == Max(0, BBitLen(b.m) + Prec + 3 - BBitLen(a.m))
                 qr == BDivMod(BShl(a.m, sh), b.m)
                 M == BAdd(BMulSmall(qr[1], 2), IF qr[2] = << >> THEN << >> ELSE <<1>>)
             IN  FRound(s, M, a.e - sh - b.e - 1)

\* a == b
FEq(a, b) ==
    /\ a.k # "nan" /\ b.k # "nan"
    /\ \/ a = b
       \/ IsZero(a) /\ IsZero(b)

\* a < b
FLt(a, b) ==
    /\ a.k # "nan" /\ b.k # "nan"
    /\ ~FEq(a, b)
    /\ IF a.k = "inf" THEN a.s = 1
       ELSE IF b.k = "inf" THEN b.s = 0
       ELSE IF IsZero(a) THEN b.s = 0
       ELSE IF IsZero(b) THEN a.s = 1
       ELSE IF a.s # b.s THEN a.s = 1
       ELSE IF a.s = 0 THEN MagCmp(a, b) < 0 ELSE MagCmp(a, b) > 0

\* a > b
FGt(a, b) == FLt(b, a)

\* a <= b
FLe(a, b) == FLt(a, b) \/ FEq(a, b)

\* the f64 nearest to n / d: the value of a decimal literal such as -0.4 (n = -4, d = 10)
Dec(n, d) == FDiv(FromInt(n), FromInt(d))

(***************************************************************************)
(* num::Complex<f64>                                                       *)
(***************************************************************************)
Complex(re, im) == [re |-> re, im |-> im]

\* Complex::norm_sqr
norm_sqr(z) == FAdd(FMul(z.re, z.re), FMul(z.im, z.im))

\* Complex * Complex
CMul(a, b) ==
    Complex(FSub(FMul(a.re, b.re), FMul(a.im, b.im)),
            FAdd(FMul(a.re, b.im), FMul(a.im, b.re)))

\* Complex + Complex
CAdd(a, b) == Complex(FAdd(a.re, b.re), FAdd(a.im, b.im))

\* Complex == Complex
CEq(a, b) == FEq(a.re, b.re) /\ FEq(a.im, b.im)

(***************************************************************************)
(* Option<usize>                                                           *)
(***************************************************************************)
None == << >>
Some(k) == <<k>>

(***************************************************************************)
(* Geometry mapper                                                         *)
(***************************************************************************)
\* pixel_to_point of main.rs and mandelbrot.rs; bounds and pixel are pairs <<x, y>>
pixel_to_point(bounds, pixel, upper_left, lower_right) ==
    LET width == FSub(lower_right.re, upper_left.re)
        height == FSub(upper_left.im, lower_right.im)
    IN  Complex(FAdd(upper_left.re,
                     FDiv(FMul(FromInt(pixel[1]), width), FromInt(bounds[1]))),
                FSub(upper_left.im,
                     FDiv(FMul(FromInt(pixel[2]), height), FromInt(bounds[2]))))

\* ComplexRegion::new
ComplexRegion(upper_left, lower_right) ==
    [upper_left |-> upper_left, lower_right |-> lower_right]

\* ComplexRegion::dimensions
dimensions(region) ==
    <<FSub(region.lower_right.re, region.upper_left.re),
      FSub(region.upper_left.im, region.lower_right.im)>>

\* ComplexRegion::pixel_to_point dividing by the number of pixel steps, not of
\* pixels: the last pixel of a row or column lands on the far edge
region_pixel_to_point_to_edge(region, bounds, pixel) ==
    LET width == dimensions(region)[1]
        height == dimensions(region)[2]
    IN  Complex(FAdd(region.upper_left.re,
                     FDiv(FMul(FromInt(pixel.x), width),
                          FromInt(Max(bounds.width - 1, 1)))),
                FSub(region.upper_left.im,
                     FDiv(FMul(FromInt(pixel.y), height),
                          FromInt(Max(bounds.height - 1, 1)))))

\* ComplexRegion::pixel_to_point; bounds is [width, height], pixel is [x, y]
region_pixel_to_point(region, bounds, pixel) ==
    LET width == dimensions(region)[1]
        height == dimensions(region)[2]
    IN  Complex(FAdd(region.upper_left.re,
                     FDiv(FMul(FromInt(pixel.x), width), FromInt(bounds.width))),
                FSub(region.upper_left.im,
                     FDiv(FMul(FromInt(pixel.y), height), FromInt(bounds.height))))

(***************************************************************************)
(* Region calculator                                                       *)
(***************************************************************************)
\* calculate_region returning the bottom-left and top-right corners
calculate_region_bottom_left(magnitude, center) ==
    LET half_mag == FDiv(magnitude, FromInt(2))
    IN  ComplexRegion(Complex(FSub(center[1], half_mag), FSub(center[2], half_mag)),
                      Complex(FAdd(center[1], half_mag), FAdd(center[2], half_mag)))

\* types.rs calculate_region; center is a pair <<x, y>>
calculate_region(magnitude, center) ==
    LET half_mag == FDiv(magnitude, FromInt(2))
    IN  ComplexRegion(Complex(FSub(center[1], half_mag), FAdd(center[2], half_mag)),
                      Complex(FAdd(center[1], half_mag), FSub(center[2], half_mag)))

\* mandelbrot.rs calculate_corners: the pair of corners it returns, in order
calculate_corners(magnitude, center) ==
    LET half_mag == FDiv(magnitude, FromInt(2))
    IN  <<Complex(FSub(center[1], half_mag), FAdd(center[2], half_mag)),
          Complex(FAdd(center[1], half_mag), FSub(center[2], half_mag))>>

(***************************************************************************)
(* Escape algorithms.  The loops run in passes of at most LoopPass         *)
(* iterations, which changes nothing of what they compute.                 *)
(***************************************************************************)
LoopPass == 16

\* the loop of escape_time from iteration i with value z, up to iteration stop;
\* threshold is the escape radius squared.  esc: the escape test passed at i.
RECURSIVE EscapeLoop(_, _, _, _, _)
EscapeLoop(c, threshold, z, i, stop) ==
    IF i >= stop THEN [z |-> z, i |-> i, esc |-> FALSE]
    ELSE IF FGt(norm_sqr(z), threshold) THEN [z |-> z, i |-> i, esc |-> TRUE]
    ELSE EscapeLoop(c, threshold, CAdd(CMul(z, z), c), i + 1, stop)

RECURSIVE EscapeFrom(_, _, _, _)
EscapeFrom(c, threshold, st, limit) ==
    IF st.esc THEN Some(st.i)
    ELSE IF st.i >= limit THEN None
    ELSE EscapeFrom(c, threshold,
                    EscapeLoop(c, threshold, st.z, st.i, Min(limit, st.i + LoopPass)),
                    limit)

EscapeStart == [z |-> Complex(FZero(0), FZero(0)), i |-> 0, esc |-> FALSE]

\* main.rs escape_time: escape radius squared 4.0
main_escape_time(c, limit) == EscapeFrom(c, FromInt(4), EscapeStart, limit)

\* escape_time as if z started at c: the first test is on c
escape_time_from_c(c, limit) ==
    EscapeFrom(c, FromInt(32), [z |-> c, i |-> 0, esc |-> FALSE], limit)

\* mandelbrot.rs escape_time: escape radius squared 32.0
escape_time(c, limit) == EscapeFrom(c, FromInt(32), EscapeStart, limit)

\* algorithms.rs EscapeTime::calculate
EscapeTime_calculate(c, zoom, limit) == EscapeFrom(c, FromInt(32), EscapeStart, limit)

\* the while loop of BurningShip::calculate from (z, iterations), up to stop iterations;
\* go: the loop condition still held when the pass ended
RECURSIVE ShipLoop(_, _, _, _, _)
ShipLoop(c, z, iterations, limit, stop) ==
    IF ~(FLe(norm_sqr(z), FromInt(4)) /\ iterations < limit)
    THEN [z |-> z, i |-> iterations, go |-> FALSE]
    ELSE IF iterations >= stop THEN [z |-> z, i |-> iterations, go |-> TRUE]
    ELSE ShipLoop(c, CAdd(CMul(Complex(FAbs(z.im), FAbs(z.im)),
                               Complex(FAbs(z.im), FAbs(z.im))), c),
                  iterations + 1, limit, stop)

RECURSIVE ShipFrom(_, _, _)
ShipFrom(c, st, limit) ==
    IF st.go THEN ShipFrom(c, ShipLoop(c, st.z, st.i, limit, st.i + LoopPass), limit)
    ELSE IF st.i = limit THEN None
    ELSE Some(st.i)

\* BurningShip::calculate iterating once more than the limit allows
BurningShip_calculate_past_limit(c, zoom, limit) ==
    ShipFrom(c, [z |-> Complex(FZero(0), FZero(0)), i |-> 0, go |-> TRUE], limit + 1)

\* algorithms.rs BurningShip::calculate
BurningShip_calculate(c, zoom, limit) ==
    ShipFrom(c, [z |-> Complex(FZero(0), FZero(0)), i |-> 0, go |-> TRUE], limit)

\* get_plotting_algorithm: the variant a name selects
get_plotting_algorithm(name) ==
    IF name = "escape_time" THEN "EscapeTime"
    ELSE IF name = "burning_ship" THEN "BurningShip"
    ELSE "EscapeTime"

\* PlottingAlgorithm::calculate on the selected variant
calculate(algorithm, c, zoom, limit) ==
    IF algorithm = "BurningShip" THEN BurningShip_calculate(c, zoom, limit)
    ELSE EscapeTime_calculate(c, zoom, limit)

(***************************************************************************)
(* Intensity mapper.  usize values are naturals of UsizeBits bits, kept as *)
(* limb sequences; an arithmetic overflow panics in a build with overflow  *)
(* checks (the debug profile) and wraps in one without (release).          *)
(***************************************************************************)
U8Max == 255
UsizeBits == 64

\* usize as u8
AsU8(n) == n % (U8Max + 1)

\* a % 2^n
BLow(a, n) == BSub(a, BShl(BShr(a, n), n))

\* the outcome of an operation on usize: a value, or a panic
UOk(v) == [panic |-> FALSE, value |-> v]
UPanic == [panic |-> TRUE, value |-> << >>]

\* a - b on usize
USub(a, b, overflow_checks) ==
    IF BCmp(a, b) >= 0 THEN UOk(BSub(a, b))
    ELSE IF overflow_checks THEN UPanic
    ELSE UOk(BSub(BAdd(a, BShl(<<1>>, UsizeBits)), b))

\* a + b on usize
UAdd(a, b, overflow_checks) ==
    LET r == BAdd(a, b)
    IN  IF BBitLen(r) <= UsizeBits THEN UOk(r)
        ELSE IF overflow_checks THEN UPanic
        ELSE UOk(BLow(r, UsizeBits))

\* a * b on usize
UMul(a, b, overflow_checks) ==
    LET r == BMul(a, b)
    IN  IF BBitLen(r) <= UsizeBits THEN UOk(r)
        ELSE IF overflow_checks THEN UPanic
        ELSE UOk(BLow(r, UsizeBits))

\* a / b on usize
UDiv(a, b) == IF b = << >> THEN UPanic ELSE UOk(BDivMod(a, b)[1])

\* mandelbrot.rs map_ranges; from and to are pairs
map_ranges(value, from, to, overflow_checks) ==
    LET range == USub(from[2], from[1], overflow_checks)
        new_range == USub(to[2], to[1], overflow_checks)
        offset == USub(value, from[1], overflow_checks)
        product == IF offset.panic \/ new_range.panic THEN UPanic
                   ELSE UMul(offset.value, new_range.value, overflow_checks)
        quotient == IF product.panic \/ range.panic THEN UPanic
                    ELSE UDiv(product.value, range.value)
    IN  IF quotient.panic THEN UPanic ELSE UAdd(to[1], quotient.value, overflow_checks)

\* the byte mandelbrot.rs render stores for an escape result (count and limit
\* as limb sequences), or the panic it ends in
render_intensity(result, limit, invert, overflow_checks) ==
    IF result = None THEN UOk(0)
    ELSE LET v == IF invert THEN USub(limit, result[1], overflow_checks)
                  ELSE UOk(result[1])
             mapped == IF v.panic THEN UPanic
                       ELSE map_ranges(v.value, <<<< >>, limit>>,
                                       <<<< >>, BFromInt(U8Max)>>, overflow_checks)
         IN  IF mapped.panic THEN UPanic ELSE UOk(AsU8(Limb(mapped.value, 1)))

\* what mandelbrot.rs render does for the pixel (column, row): the byte it
\* stores, or the panic
render_pixel(bounds, column, row, upper_left, lower_right, limit, invert, checks) ==
    LET result == escape_time(pixel_to_point(bounds, <<column, row>>,
                                             upper_left, lower_right), limit)
    IN  render_intensity(IF result = None THEN None ELSE Some(BFromInt(result[1])),
                         BFromInt(limit), invert, checks)

MainLimit == 255

\* the byte main.rs render stores for an escape result
main_intensity(result) ==
    IF result = None THEN 0 ELSE U8Max - AsU8(result[1])

\* the byte main.rs render stores for the pixel (column, row)
main_render_pixel(bounds, column, row, upper_left, lower_right) ==
    main_intensity(main_escape_time(pixel_to_point(bounds, <<column, row>>,
                                                   upper_left, lower_right), MainLimit))

(***************************************************************************)
(* Inputs                                                                  *)
(***************************************************************************)
MaxWidth == 3
MaxHeight == 9
MaxPixels == 9

\* the image sizes main is run on, zero width and zero height included
BoundsSet ==
    {b \in (0..MaxWidth) \X (0..MaxHeight) : b[1] * b[2] <= MaxPixels}

\* the regions main is run on, as <<upper_left, lower_right>>:
\* -0.2,-1.2 2.5,-2.0 and 0.3,2.5 3.0,0.7
MainRegions ==
    {<<Complex(Dec(-2, 10), Dec(-12, 10)), Complex(Dec(25, 10), FromInt(-2))>>,
     <<Complex(Dec(3, 10), Dec(25, 10)), Complex(FromInt(3), Dec(7, 10))>>}

(***************************************************************************)
(* main.rs: the band renderer                                              *)
(***************************************************************************)
VARIABLES
    main_bounds,        \* <<width, height>> of the image
    main_upper_left,    \* corners of the region
    main_lower_right,
    pc,            \* where main is
    pixels,        \* the pixel buffer, pixels[p + 1] the byte at flat offset p
    writes,        \* writes[p + 1]: how many times offset p has been stored to
    bands,         \* the chunks of the buffer, each [start, len]
    workers,       \* the spawned band threads, in spawn order
    encoded,       \* what write_image was given
    call           \* the last call of a pure function (SpecFn)

vars == <<main_bounds, main_upper_left, main_lower_right, pc, pixels, writes, bands, workers,
          encoded, call>>

threads == 8

NotEncoded == [given |-> FALSE, pixels |-> << >>, bounds |-> <<0, 0>>]
NoCall == [fn |-> "none"]

\* chunks_mut as if it cut whole chunks only and left the remainder in the
\* last of them
chunks_mut_remainder_last(len, chunk_size) ==
    LET n == IF len = 0 THEN 0 ELSE Max(1, len \div chunk_size)
    IN  [i \in 1..n |->
            [start |-> (i - 1) * chunk_size,
             len |-> IF i < n THEN chunk_size ELSE len - (n - 1) * chunk_size]]

\* slice::chunks_mut on a slice of len elements: the chunks as [start, len]
chunks_mut(len, chunk_size) ==
    [i \in 1..((len + chunk_size - 1) \div chunk_size) |->
        [start |-> (i - 1) * chunk_size,
         len |-> Min(chunk_size, len - (i - 1) * chunk_size)]]

\* band_chunk_size without the row width: chunks of rows_per_band pixels
band_chunk_size_in_pixels(rows_per_band, width) == rows_per_band

\* the chunk size main asks for
band_chunk_size(rows_per_band, width) == rows_per_band * width

\* band_offset as if every band were the whole buffer
band_offset_from_zero(band, row, column) == row * band.bounds[1] + column

\* the flat offset in the whole buffer of pixels[row * bounds.0 + column] of a band
band_offset(band, row, column) == band.start + row * band.bounds[1] + column

Init ==
    /\ main_bounds \in BoundsSet
    /\ \E r \in MainRegions : main_upper_left = r[1] /\ main_lower_right = r[2]
    /\ pc = "alloc"
    /\ pixels = << >>
    /\ writes = << >>
    /\ bands = << >>
    /\ workers = << >>
    /\ encoded = NotEncoded
    /\ call = NoCall

\* main.rs 135-140: allocate the buffer and cut it into bands
Alloc ==
    /\ pc = "alloc"
    /\ LET rows_per_band == main_bounds[2] \div threads + 1
           size == band_chunk_size(rows_per_band, main_bounds[1])
       IN  /\ pixels' = [p \in 1..(main_bounds[1] * main_bounds[2]) |-> 0]
           /\ writes' = [p \in 1..(main_bounds[1] * main_bounds[2]) |-> 0]
           /\ IF size = 0
              THEN pc' = "panicked" /\ bands' = bands
              ELSE pc' = "spawn" /\ bands' = chunks_mut(main_bounds[1] * main_bounds[2], size)
    /\ UNCHANGED <<main_bounds, main_upper_left, main_lower_right, workers, encoded, call>>

\* main.rs 143-151: one turn of the loop over the bands
Spawn ==
    /\ pc = "spawn"
    /\ Len(workers) < Len(bands)
    /\ LET i == Len(workers)
           band == bands[i + 1]
           rows_per_band == main_bounds[2] \div threads + 1
           top == rows_per_band * i
           height == band.len \div main_bounds[1]
       IN  workers' = Append(workers,
               [start |-> band.start,
                len |-> band.len,
                bounds |-> <<main_bounds[1], height>>,
                upper_left |-> pixel_to_point(main_bounds, <<0, top>>,
                                              main_upper_left, main_lower_right),
                lower_right |-> pixel_to_point(main_bounds, <<main_bounds[1], top + height>>,
                                               main_upper_left, main_lower_right),
                row |-> 0,
                column |-> 0,
                state |-> "running"])
    /\ UNCHANGED <<main_bounds, main_upper_left, main_lower_right, pc, pixels, writes, bands,
                   encoded, call>>

\* main.rs 152: the loop over the bands ends
SpawnEnd ==
    /\ pc = "spawn"
    /\ Len(workers) = Len(bands)
    /\ pc' = "join"
    /\ UNCHANGED <<main_bounds, main_upper_left, main_lower_right, pixels, writes, bands, workers,
                   encoded, call>>

\* main.rs 79-96: a band thread in render stores one pixel
RenderStep(i) ==
    /\ i \in 1..Len(workers)
    /\ workers[i].state = "running"
    /\ LET w == workers[i]
       IN  IF w.len # w.bounds[1] * w.bounds[2]
           THEN /\ workers' = [workers EXCEPT ![i].state = "panicked"]
                /\ UNCHANGED <<pixels, writes>>
           ELSE IF w.row >= w.bounds[2]
           THEN /\ workers' = [workers EXCEPT ![i].state = "finished"]
                /\ UNCHANGED <<pixels, writes>>
           ELSE LET p == band_offset(w, w.row, w.column) + 1
                    last_column == w.column + 1 = w.bounds[1]
                    row2 == IF last_column THEN w.row + 1 ELSE w.row
                IN  /\ pixels' = [pixels EXCEPT ![p] =
                           main_render_pixel(w.bounds, w.column, w.row,
                                             w.upper_left, w.lower_right)]
                    /\ writes' = [writes EXCEPT ![p] = @ + 1]
                    /\ workers' = [workers EXCEPT
                           ![i].column = IF last_column THEN 0 ELSE w.column + 1,
                           ![i].row = row2,
                           ![i].state = IF row2 >= w.bounds[2] THEN "finished"
                                        ELSE "running"]
    /\ UNCHANGED <<main_bounds, main_upper_left, main_lower_right, pc, bands, encoded, call>>

\* Join as if the scope returned without waiting for its threads
JoinWithoutWaiting ==
    /\ pc = "join"
    /\ pc' = IF \E i \in 1..Len(workers) : workers[i].state = "panicked"
             THEN "panicked" ELSE "write"
    /\ UNCHANGED <<main_bounds, main_upper_left, main_lower_right, pixels, writes,
                   bands, workers, encoded, call>>

\* Join as if the scope waited for as many threads as there can be at most
JoinAllThreads ==
    /\ pc = "join"
    /\ Len(workers) = threads
    /\ \A i \in 1..Len(workers) : workers[i].state # "running"
    /\ pc' = IF \E i \in 1..Len(workers) : workers[i].state = "panicked"
             THEN "panicked" ELSE "write"
    /\ UNCHANGED <<main_bounds, main_upper_left, main_lower_right, pixels, writes, bands, workers,
                   encoded, call>>

\* main.rs 153-154: the scope returns once every thread it spawned has ended
Join ==
    /\ pc = "join"
    /\ \A i \in 1..Len(workers) : workers[i].state # "running"
    /\ pc' = IF \E i \in 1..Len(workers) : workers[i].state = "panicked"
             THEN "panicked" ELSE "write"
    /\ UNCHANGED <<main_bounds, main_upper_left, main_lower_right, pixels, writes, bands, workers,
                   encoded, call>>

\* main.rs 156, 99-110: the buffer is handed to write_image, which returns Ok
\* or, when the file cannot be created or the encoding fails, Err; on Err the
\* expect of main panics
WriteImage ==
    /\ pc = "write"
    /\ encoded' = [given |-> TRUE, pixels |-> pixels, bounds |-> main_bounds]
    /\ \E written \in BOOLEAN : pc' = IF written THEN "done" ELSE "panicked"
    /\ UNCHANGED <<main_bounds, main_upper_left, main_lower_right, pixels, writes, bands, workers,
                   call>>

Next ==
    \/ Alloc
    \/ Spawn
    \/ SpawnEnd
    \/ \E i \in 1..threads : RenderStep(i)
    \/ Join
    \/ WriteImage

Spec == Init /\ [][Next]_vars

(***************************************************************************)
(* The band renderer: properties                                           *)
(***************************************************************************)
\* the rows of the image that lie in band i
BandRows(i) ==
    {r \in 0..(main_bounds[2] - 1) :
        /\ bands[i].start <= r * main_bounds[1]
        /\ r * main_bounds[1] < bands[i].start + bands[i].len}

\* every band has been handed to a worker and every worker has returned
AllBandsRendered ==
    /\ pc \in {"spawn", "join", "write", "done"} \/ encoded.given
    /\ Len(workers) = Len(bands)
    /\ \A i \in 1..Len(workers) : workers[i].state = "finished"

\* C1: for width > 0 and height >= 0 the bands are made of whole rows, no two
\* bands share a row, their rows together are exactly 0..height-1, no pixel is
\* ever stored to twice, and once every band worker has run every pixel of the
\* buffer has been stored to exactly once.  Neither the cutting of the bands
\* nor a band worker panics: main can only panic on the result of write_image.
C1_BandsPartitionRows ==
    (main_bounds[1] > 0 /\ pc # "alloc") =>
        /\ pc = "panicked" => encoded.given
        /\ \A i \in 1..Len(workers) : workers[i].state # "panicked"
        /\ Len(pixels) = main_bounds[1] * main_bounds[2]
        /\ \A i \in 1..Len(bands) :
              /\ bands[i].len > 0
              /\ bands[i].start % main_bounds[1] = 0
              /\ bands[i].len % main_bounds[1] = 0
              /\ bands[i].start + bands[i].len <= Len(pixels)
        /\ \A i, j \in 1..Len(bands) : i # j => BandRows(i) \cap BandRows(j) = {}
        /\ UNION {BandRows(i) : i \in 1..Len(bands)} = 0..(main_bounds[2] - 1)
        /\ \A p \in 1..Len(writes) : writes[p] <= 1
        /\ AllBandsRendered => \A p \in 1..Len(writes) : writes[p] = 1

\* a finished run on an image of several bands, the last shorter than the first
C1_Witness ==
    /\ pc = "done"
    /\ Len(bands) >= 2
    /\ bands[Len(bands)].len < bands[1].len
    /\ \A p \in 1..Len(writes) : writes[p] = 1

\* render on the whole image as one band: the buffer it fills
render_whole(bounds, upper_left, lower_right) ==
    [p \in 1..(bounds[1] * bounds[2]) |->
        main_render_pixel(bounds, (p - 1) % bounds[1], (p - 1) \div bounds[1],
                          upper_left, lower_right)]

\* C2: the buffer rendered band by band is byte for byte the buffer render
\* fills when it is given the whole image as a single band.
C2_BandedEqualsWhole ==
    encoded.given =>
        encoded.pixels = render_whole(main_bounds, main_upper_left, main_lower_right)

\* the bands of main rendered one after the other, each to its end: the byte
\* at flat offset p - 1
render_in_order(bounds, upper_left, lower_right) ==
    [p \in 1..(bounds[1] * bounds[2]) |->
        LET row == (p - 1) \div bounds[1]
            rows_per_band == bounds[2] \div threads + 1
            top == rows_per_band * (row \div rows_per_band)
            height == Min(rows_per_band, bounds[2] - top)
        IN  main_render_pixel(<<bounds[1], height>>, (p - 1) % bounds[1], row - top,
                pixel_to_point(bounds, <<0, top>>, upper_left, lower_right),
                pixel_to_point(bounds, <<bounds[1], top + height>>,
                               upper_left, lower_right))]

\* C3: whatever the order in which the band workers take their steps and
\* finish, the buffer handed over at the end is the one buffer the inputs
\* determine (that of the run taking the bands in order).
C3_ScheduleIndependent ==
    encoded.given =>
        encoded.pixels = render_in_order(main_bounds, main_upper_left, main_lower_right)

\* a finished run of at least three bands of several pixels each, whose
\* workers' stores can be interleaved in many orders
C3_Witness ==
    /\ pc = "done"
    /\ Len(workers) >= 3
    /\ \A i \in 1..Len(workers) : workers[i].len >= 2
    /\ encoded.pixels = pixels

\* C4: write_image is given the buffer only after every band has been handed
\* to a worker and every worker has finished: it never starts while a band is
\* unrendered or being rendered.
C4_WriteAfterAllWorkers ==
    (pc \in {"write", "done"} \/ encoded.given) =>
        /\ Len(workers) = Len(bands)
        /\ \A i \in 1..Len(workers) : workers[i].state = "finished"
        /\ \A p \in 1..Len(writes) : writes[p] >= 1

\* write_image has been given the buffer of a run of several workers
C4_Witness ==
    /\ encoded.given
    /\ Len(workers) >= 2
    /\ \A i \in 1..Len(workers) : workers[i].state = "finished"

\* C10: with zero width or zero height the run is rejected before rendering:
\* no band worker is started and write_image is never given a buffer.
C10_ZeroSizeRejected ==
    (main_bounds[1] = 0 \/ main_bounds[2] = 0) =>
        /\ workers = << >>
        /\ ~encoded.given
        /\ pc # "write"

(***************************************************************************)
(* The pure functions, called on their own: main is not running, the       *)
(* arguments are drawn at the start and one action applies one function.   *)
(***************************************************************************)
MainIdle ==
    /\ main_bounds = <<0, 0>>
    /\ main_upper_left = Complex(FZero(0), FZero(0))
    /\ main_lower_right = Complex(FZero(0), FZero(0))
    /\ pc = "idle"
    /\ pixels = << >>
    /\ writes = << >>
    /\ bands = << >>
    /\ workers = << >>
    /\ encoded = NotEncoded

MainVars == <<main_bounds, main_upper_left, main_lower_right, pc, pixels, writes,
              bands, workers, encoded>>

(***************************************************************************)
(* mandelbrot.rs render on whole buffers                                   *)
(***************************************************************************)
\* mandelbrot.rs render on a buffer of bounds[1] * bounds[2] pixels: for every
\* pixel in row order the byte stored, or the panic of the arithmetic
render(bounds, upper_left, lower_right, limit, invert, overflow_checks) ==
    [p \in 1..(bounds[1] * bounds[2]) |->
        render_pixel(bounds, (p - 1) % bounds[1], (p - 1) \div bounds[1],
                     upper_left, lower_right, limit, invert, overflow_checks)]

\* the sizes of the buffers rendered
RenderBounds == {<<1, 1>>, <<2, 1>>, <<2, 2>>}

\* render(pixels, bounds, c, c + (1 - i), limit, invert): the region whose
\* upper-left corner is the point of the call, one unit wide and high
CallRender ==
    /\ call.fn = "none"
    /\ \E render_bounds \in RenderBounds, invert \in BOOLEAN, overflow_checks \in BOOLEAN :
          call' = [fn |-> "render", c |-> call.c, zoom |-> call.zoom, limit |-> call.limit,
                   bounds |-> render_bounds, invert |-> invert,
                   result |-> render(render_bounds, call.c,
                                     CAdd(call.c, Complex(FromInt(1), FromInt(-1))),
                                     call.limit, invert, overflow_checks)]
    /\ UNCHANGED MainVars

(***************************************************************************)
(* The escape algorithms                                                   *)
(***************************************************************************)
MaxLimit == 5

\* coordinates of the points the algorithms are called on: in and around the
\* set, on both escape radii, and the values that are not numbers
EscapeCoords ==
    {FromInt(-2), Dec(-75, 100), FZero(0), Dec(3, 10), FromInt(1), FromInt(6),
     FInf(0), FNaN}

EscapePoints == {Complex(re, im) : re \in EscapeCoords, im \in EscapeCoords}

ZoomSet == {0, 3}

InitEscape ==
    /\ MainIdle
    /\ \E c \in EscapePoints, zoom \in ZoomSet, limit \in 0..MaxLimit :
          call = [fn |-> "none", c |-> c, zoom |-> zoom, limit |-> limit,
                  result |-> None]

\* EscapeTime.calculate(c, zoom, limit)
CallEscapeTime ==
    /\ call.fn = "none"
    /\ call' = [call EXCEPT !.fn = "EscapeTime",
                            !.result = EscapeTime_calculate(call.c, call.zoom, call.limit)]
    /\ UNCHANGED MainVars

\* BurningShip.calculate(c, zoom, limit)
CallBurningShip ==
    /\ call.fn = "none"
    /\ call' = [call EXCEPT !.fn = "BurningShip",
                            !.result = BurningShip_calculate(call.c, call.zoom, call.limit)]
    /\ UNCHANGED MainVars

\* mandelbrot.rs escape_time(c, limit)
CallEscapeTimeFn ==
    /\ call.fn = "none"
    /\ call' = [call EXCEPT !.fn = "escape_time",
                            !.result = escape_time(call.c, call.limit)]
    /\ UNCHANGED MainVars

NextEscape == CallEscapeTime \/ CallBurningShip \/ CallEscapeTimeFn \/ CallRender

SpecEscape == InitEscape /\ [][NextEscape]_vars

\* C5: EscapeTime, BurningShip and escape_time return None or Some(k) with
\* k < limit, for every point and limit; with limit 1 the result is Some(0) or
\* None.
C5_CountBelowLimit ==
    call.fn \in {"EscapeTime", "BurningShip", "escape_time"} =>
        /\ \/ call.result = None
           \/ /\ Len(call.result) = 1
              /\ call.result[1] \in 0..(call.limit - 1)
        /\ call.limit = 1 => call.result \in {None, Some(0)}

\* an escape found at the last iteration the limit allows
C5_Witness ==
    /\ call.fn = "BurningShip"
    /\ call.limit >= 2
    /\ call.result = Some(call.limit - 1)

(***************************************************************************)
(* The intensity mapper                                                    *)
(***************************************************************************)
MaxIntensityLimit == 6

\* 2^n as a usize
UPow2(n) == BShl(<<1>>, n)

\* usize::MAX
UsizeMax == BSub(UPow2(UsizeBits), <<1>>)

\* the iteration limits: the small ones, and large ones up to usize::MAX
IntensityLimits ==
    {BFromInt(n) : n \in 1..MaxIntensityLimit}
        \cup {UPow2(56), UPow2(60), UsizeMax}

\* the escape counts tried under a limit: 0 .. limit when that is small, and
\* the ends, the middle and two counts near 2^56 when it is large
CountsFor(limit) ==
    {count \in {BFromInt(n) : n \in 0..MaxIntensityLimit}
                  \cup {BShr(limit, 1), BSub(limit, <<1>>), limit,
                        UPow2(56), BAdd(UPow2(56), UPow2(49))} :
        BCmp(count, limit) <= 0}

InitIntensity ==
    /\ MainIdle
    /\ \E limit \in IntensityLimits, invert \in BOOLEAN, overflow_checks \in BOOLEAN :
       \E result \in {None} \cup {Some(count) : count \in CountsFor(limit)} :
          call = [fn |-> "none", result |-> result, limit |-> limit,
                  invert |-> invert, overflow_checks |-> overflow_checks,
                  out |-> UOk(0)]

\* the match on the escape result in mandelbrot.rs render
CallRenderIntensity ==
    /\ call.fn = "none"
    /\ call' = [call EXCEPT !.fn = "render_intensity",
                            !.out = render_intensity(call.result, call.limit, call.invert,
                                                     call.overflow_checks)]
    /\ UNCHANGED MainVars

\* the match on the escape result in main.rs render, on the results
\* escape_time(point, 255) can have
CallMainIntensity ==
    /\ call.fn = "none"
    /\ \E result \in {None} \cup {Some(count) : count \in 0..(MainLimit - 1)} :
          call' = [call EXCEPT !.fn = "main_intensity",
                               !.result = result,
                               !.limit = BFromInt(MainLimit),
                               !.out = UOk(main_intensity(result))]
    /\ UNCHANGED MainVars

NextIntensity == CallRenderIntensity \/ CallMainIntensity

SpecIntensity == InitIntensity /\ [][NextIntensity]_vars

\* C6: the byte render stores is 0 for None, and for Some(count) the integer
\* part of 255 * v / limit, where v is limit - count when invert is set and
\* count otherwise, for every limit >= 1 and count in 0 .. limit.
C6_IntensityFormula ==
    call.fn = "render_intensity" =>
        /\ ~call.out.panic
        /\ IF call.result = None THEN call.out.value = 0
           ELSE LET v == IF call.invert THEN BSub(call.limit, call.result[1])
                         ELSE call.result[1]
                IN  BFromInt(call.out.value) = BDivMod(BMulSmall(v, U8Max), call.limit)[1]

\* C7: without invert the byte does not decrease as the escape count grows:
\* for a <= b <= limit the byte for Some(a) is at most the byte for Some(b);
\* and None gives 0.
C7_Monotonic ==
    (call.fn = "render_intensity" /\ ~call.invert) =>
        /\ ~call.out.panic
        /\ IF call.result = None THEN call.out.value = 0
           ELSE \A a \in CountsFor(call.limit) :
                   BCmp(a, call.result[1]) <= 0 =>
                       LET lower == render_intensity(Some(a), call.limit, FALSE,
                                                     call.overflow_checks)
                       IN  ~lower.panic /\ lower.value <= call.out.value

\* C17: for every limit >= 1 and every count an escape algorithm can return
\* (1 <= count < limit), limit - count does not underflow, the value render
\* computes with map_ranges lies in 0 .. 255 before the cast to u8, and without
\* inversion the byte is below 255; in main.rs, where the limit is 255,
\* 255 - count lies in 1 .. 254, so an escaped pixel is never 0.
C17_IntensityInRange ==
    /\ (/\ call.fn = "render_intensity"
        /\ call.result # None
        /\ BCmp(<<1>>, call.result[1]) <= 0
        /\ BCmp(call.result[1], call.limit) < 0) =>
          LET difference == USub(call.limit, call.result[1], TRUE)
              v == IF call.invert THEN difference.value ELSE call.result[1]
              mapped == map_ranges(v, <<<< >>, call.limit>>, <<<< >>, BFromInt(U8Max)>>,
                                   call.overflow_checks)
          IN  /\ ~difference.panic
              /\ ~mapped.panic
              /\ BCmp(mapped.value, BFromInt(U8Max)) <= 0
              /\ ~call.out.panic
              /\ BFromInt(call.out.value) = mapped.value
              /\ ~call.invert => call.out.value < U8Max
    /\ (call.fn = "main_intensity" /\ call.result # None /\ call.result[1] >= 1) =>
          /\ call.out.value = U8Max - call.result[1]
          /\ call.out.value \in 1..(U8Max - 1)

(***************************************************************************)
(* The geometry mapper                                                     *)
(***************************************************************************)
MaxSide == 3

\* the f64 n units in the last place above a positive normal x
UlpsAbove(x, n) == [x EXCEPT !.m = BAdd(x.m, BFromInt(n))]

\* f64::MAX
FMax == [k |-> "fin", s |-> 0, m |-> BSub(UPow2(Prec), <<1>>), e |-> EMax - Prec]

\* the regions the mapper is called on, as <<upper_left, lower_right>>: two
\* ordinary ones, one of zero area, three that are 1, 40 and 100 units in the
\* last place wide and high, one as wide as the finite f64, one too wide for
\* its width to be finite, and one whose corners are swapped
GeometryRegions ==
    {<<Complex(FromInt(-1), FromInt(1)), Complex(FromInt(1), FromInt(-1))>>,
     <<Complex(Dec(-2, 10), Dec(-12, 10)), Complex(Dec(25, 10), FromInt(-2))>>,
     <<Complex(Dec(5, 10), Dec(5, 10)), Complex(Dec(5, 10), Dec(5, 10))>>,
     <<Complex(FromInt(1), UlpsAbove(FromInt(1), 1)),
       Complex(UlpsAbove(FromInt(1), 1), FromInt(1))>>,
     <<Complex(FromInt(1), UlpsAbove(FromInt(1), 40)),
       Complex(UlpsAbove(FromInt(1), 40), FromInt(1))>>,
     <<Complex(FromInt(1), UlpsAbove(FromInt(1), 100)),
       Complex(UlpsAbove(FromInt(1), 100), FromInt(1))>>,
     <<Complex(FZero(0), FMax), Complex(FMax, FZero(0))>>,
     <<Complex(FNeg(FMax), FMax), Complex(FMax, FNeg(FMax))>>,
     <<Complex(FromInt(1), FromInt(-1)), Complex(FromInt(-1), FromInt(1))>>}

InitGeometry ==
    /\ MainIdle
    /\ \E r \in GeometryRegions, w \in 1..MaxSide, h \in 1..MaxSide :
       \E x \in 0..(w - 1), y \in 0..(h - 1) :
          call = [fn |-> "none", region |-> ComplexRegion(r[1], r[2]),
                  bounds |-> <<w, h>>, pixel |-> <<x, y>>, point |-> r[1]]

\* types.rs: region.pixel_to_point(bounds, pixel)
CallRegionPixelToPoint ==
    /\ call.fn = "none"
    /\ call' = [call EXCEPT
           !.fn = "ComplexRegion::pixel_to_point",
           !.point = region_pixel_to_point(call.region,
                         [width |-> call.bounds[1], height |-> call.bounds[2]],
                         [x |-> call.pixel[1], y |-> call.pixel[2]])]
    /\ UNCHANGED MainVars

\* mandelbrot.rs and main.rs: pixel_to_point(bounds, pixel, upper_left, lower_right)
CallPixelToPoint ==
    /\ call.fn = "none"
    /\ call' = [call EXCEPT
           !.fn = "pixel_to_point",
           !.point = pixel_to_point(call.bounds, call.pixel, call.region.upper_left,
                                    call.region.lower_right)]
    /\ UNCHANGED MainVars

NextGeometry == CallRegionPixelToPoint \/ CallPixelToPoint

SpecGeometry == InitGeometry /\ [][NextGeometry]_vars

\* the call was of a pixel mapper
MapperCalled == call.fn \in {"ComplexRegion::pixel_to_point", "pixel_to_point"}

\* the call's pixel is the last of the last row
LastPixel == call.pixel = <<call.bounds[1] - 1, call.bounds[2] - 1>>

\* C8 as stated: pixel (0, 0) maps to the upper-left corner exactly, and pixel
\* (w-1, h-1) maps strictly inside the region and never to its lower-right
\* corner, for all w, h > 0 and every region.
C8_CornersAsStated ==
    MapperCalled =>
        /\ call.pixel = <<0, 0>> => CEq(call.point, call.region.upper_left)
        /\ LastPixel =>
              /\ FLt(call.region.upper_left.re, call.point.re)
              /\ FLt(call.point.re, call.region.lower_right.re)
              /\ FLt(call.region.lower_right.im, call.point.im)
              /\ FLt(call.point.im, call.region.upper_left.im)
              /\ ~CEq(call.point, call.region.lower_right)

\* the region's corners are in order and pixel.x * width and pixel.y * height
\* are finite for the last pixel of the image
OrderedFinite(region, bounds) ==
    /\ FLe(region.upper_left.re, region.lower_right.re)
    /\ FLe(region.lower_right.im, region.upper_left.im)
    /\ dimensions(region)[1].k = "fin"
    /\ dimensions(region)[2].k = "fin"
    /\ FMul(FromInt(bounds[1] - 1), dimensions(region)[1]).k = "fin"
    /\ FMul(FromInt(bounds[2] - 1), dimensions(region)[2]).k = "fin"

\* 2^n as an f64, for n within the exponents of the normal numbers
FPow2(n) == [k |-> "fin", s |-> 0, m |-> UPow2(Prec - 1), e |-> n - (Prec - 1)]

\* the exponent of the smallest positive normal f64, and the part of a
\* coordinate below which a pixel step counts as lost in rounding
MinNormalExp == -1022
StepExp == -48

\* the n pixels between lo and hi are wide enough for rounding: the step
\* (hi - lo) / n is at least 2^-48 of the larger of |lo| and |hi|, and that
\* part is a normal number
WideEnough(lo, hi, n) ==
    LET larger == IF FLe(FAbs(lo), FAbs(hi)) THEN FAbs(hi) ELSE FAbs(lo)
        part == FMul(larger, FPow2(StepExp))
    IN  /\ FLe(FPow2(MinNormalExp), part)
        /\ FLe(part, FDiv(FSub(hi, lo), FromInt(n)))

\* C8, amended: for w, h > 0 and a region with its corners in order and finite
\* products, pixel (0, 0) maps to the upper-left corner exactly and pixel
\* (w-1, h-1) maps into the closed rectangle between the corners: onto the
\* upper-left corner's real part when w = 1 and imaginary part when h = 1, and
\* strictly between the corners' real parts when w >= 2 and the columns are
\* wide enough, strictly between their imaginary parts when h >= 2 and the
\* rows are high enough, and then never onto the lower-right corner.
C8_CornersInClosedRegion ==
    (MapperCalled /\ OrderedFinite(call.region, call.bounds)) =>
        /\ call.pixel = <<0, 0>> => CEq(call.point, call.region.upper_left)
        /\ LastPixel =>
              /\ FLe(call.region.upper_left.re, call.point.re)
              /\ FLe(call.point.re, call.region.lower_right.re)
              /\ FLe(call.region.lower_right.im, call.point.im)
              /\ FLe(call.point.im, call.region.upper_left.im)
              /\ call.bounds[1] = 1 => FEq(call.point.re, call.region.upper_left.re)
              /\ call.bounds[2] = 1 => FEq(call.point.im, call.region.upper_left.im)
              /\ (/\ call.bounds[1] >= 2
                  /\ WideEnough(call.region.upper_left.re, call.region.lower_right.re,
                                call.bounds[1])) =>
                    /\ FLt(call.region.upper_left.re, call.point.re)
                    /\ FLt(call.point.re, call.region.lower_right.re)
                    /\ ~CEq(call.point, call.region.lower_right)
              /\ (/\ call.bounds[2] >= 2
                  /\ WideEnough(call.region.lower_right.im, call.region.upper_left.im,
                                call.bounds[2])) =>
                    /\ FLt(call.region.lower_right.im, call.point.im)
                    /\ FLt(call.point.im, call.region.upper_left.im)
                    /\ ~CEq(call.point, call.region.lower_right)

\* the last pixel of an image of several columns and rows mapped onto the
\* lower-right corner itself, of a region that is not a single point
C8_Witness ==
    /\ call.fn = "ComplexRegion::pixel_to_point"
    /\ OrderedFinite(call.region, call.bounds)
    /\ LastPixel
    /\ call.bounds[1] >= 2 /\ call.bounds[2] >= 2
    /\ ~CEq(call.region.upper_left, call.region.lower_right)
    /\ CEq(call.point, call.region.lower_right)

(***************************************************************************)
(* The region calculator                                                   *)
(***************************************************************************)
\* the magnitudes tried: ordinary, zero, negative, the largest, infinite, not
\* a number
Magnitudes ==
    {FromInt(4), FromInt(3), FromInt(2), Dec(1, 10), FZero(0), FromInt(-2), FMax,
     FInf(0), FNaN}

\* the coordinates of the centers tried
CenterCoords ==
    {FZero(0), Dec(-5, 10), FromInt(5), FromInt(-20), Dec(1, 3), FromInt(-2), FromInt(3)}

InitRegion ==
    /\ MainIdle
    /\ \E magnitude \in Magnitudes, cx \in CenterCoords, cy \in CenterCoords :
          call = [fn |-> "none", magnitude |-> magnitude, center |-> <<cx, cy>>,
                  corners |-> << >>]

\* types.rs: calculate_region(magnitude, center)
CallCalculateRegion ==
    /\ call.fn = "none"
    /\ LET region == calculate_region(call.magnitude, call.center)
       IN  call' = [call EXCEPT !.fn = "calculate_region",
                                !.corners = <<region.upper_left, region.lower_right>>]
    /\ UNCHANGED MainVars

\* mandelbrot.rs: calculate_corners(magnitude, center)
CallCalculateCorners ==
    /\ call.fn = "none"
    /\ call' = [call EXCEPT !.fn = "calculate_corners",
                            !.corners = calculate_corners(call.magnitude, call.center)]
    /\ UNCHANGED MainVars

NextRegion == CallCalculateRegion \/ CallCalculateCorners

SpecRegion == InitRegion /\ [][NextRegion]_vars

\* C9: calculate_region and calculate_corners return, in this order, the
\* upper-left corner (cx - magnitude/2, cy + magnitude/2) and the lower-right
\* corner (cx + magnitude/2, cy - magnitude/2); magnitude 4 at (0, 0) gives
\* (-2, 2) and (2, -2).
C9_SquareCorners ==
    call.fn \in {"calculate_region", "calculate_corners"} =>
        LET half == FDiv(call.magnitude, FromInt(2))
            cx == call.center[1]
            cy == call.center[2]
        IN  /\ call.corners[1] = Complex(FSub(cx, half), FAdd(cy, half))
            /\ call.corners[2] = Complex(FAdd(cx, half), FSub(cy, half))
            /\ (call.magnitude = FromInt(4) /\ call.center = <<FZero(0), FZero(0)>>) =>
                  /\ call.corners[1] = Complex(FromInt(-2), FromInt(2))
                  /\ call.corners[2] = Complex(FromInt(2), FromInt(-2))

\* calculate_region was called with magnitude 4 at (0, 0)
C9_Witness ==
    /\ call.fn = "calculate_region"
    /\ call.magnitude = FromInt(4)
    /\ call.center = <<FZero(0), FZero(0)>>
    /\ call.corners = <<Complex(FromInt(-2), FromInt(2)), Complex(FromInt(2), FromInt(-2))>>

\* C13: calculate_corners(magnitude, center) returns the pair (bottom_left,
\* top_right) of the square around center: first (cx - magnitude/2,
\* cy - magnitude/2), then (cx + magnitude/2, cy + magnitude/2); magnitude 4
\* at (-2, 3) gives (-4, 1) and (0, 5).
C13_BottomLeftTopRight ==
    call.fn = "calculate_corners" =>
        LET half == FDiv(call.magnitude, FromInt(2))
            cx == call.center[1]
            cy == call.center[2]
        IN  /\ call.corners[1] = Complex(FSub(cx, half), FSub(cy, half))
            /\ call.corners[2] = Complex(FAdd(cx, half), FAdd(cy, half))
            /\ (call.magnitude = FromInt(4) /\ call.center = <<FromInt(-2), FromInt(3)>>) =>
                  /\ call.corners[1] = Complex(FromInt(-4), FromInt(1))
                  /\ call.corners[2] = Complex(FromInt(0), FromInt(5))

(***************************************************************************)
(* Algorithm selection                                                     *)
(***************************************************************************)
\* cli.rs: the value parser of --algorithm.  The possible values are the two
\* known names; any other value is a usage error and the process exits.
Arguments_algorithm(value) ==
    IF value \in {"escape_time", "burning_ship"}
    THEN [ok |-> TRUE, value |-> value]
    ELSE [ok |-> FALSE, value |-> value]

\* the names tried: the two known ones, the empty name, other spellings of the
\* known ones, and names of algorithms that do not exist
AlgorithmNames ==
    {"escape_time", "burning_ship", "", "Escape_Time", "burning-ship", "classic",
     "julia", "escape_time "}

\* points on which the two variants return different counts, and one on which
\* they agree
AlgorithmPoints ==
    {Complex(FromInt(1), FromInt(1)), Complex(FromInt(-2), FromInt(1)),
     Complex(FromInt(6), FZero(0)), Complex(FZero(0), FZero(0))}

InitAlgorithm ==
    /\ MainIdle
    /\ \E name \in AlgorithmNames, c \in AlgorithmPoints, limit \in 0..MaxLimit :
          call = [fn |-> "none", name |-> name, c |-> c, limit |-> limit,
                  parsed |-> [ok |-> TRUE, value |-> ""], variant |-> "",
                  result |-> None]

\* the command line is parsed with --algorithm <name>
CallArgumentsParse ==
    /\ call.fn = "none"
    /\ call' = [call EXCEPT !.fn = "Arguments::algorithm",
                            !.parsed = Arguments_algorithm(call.name)]
    /\ UNCHANGED MainVars

\* get_plotting_algorithm(name), and calculate on the variant it returns
CallGetPlottingAlgorithm ==
    /\ call.fn = "none"
    /\ LET algorithm == get_plotting_algorithm(call.name)
       IN  call' = [call EXCEPT !.fn = "get_plotting_algorithm",
                                !.variant = algorithm,
                                !.result = calculate(algorithm, call.c, 0, call.limit)]
    /\ UNCHANGED MainVars

NextAlgorithm == CallArgumentsParse \/ CallGetPlottingAlgorithm

SpecAlgorithm == InitAlgorithm /\ [][NextAlgorithm]_vars

\* C11: selecting an algorithm by an unknown name is not fatal: every name
\* other than "escape_time" and "burning_ship" resolves to the Classic
\* (EscapeTime) variant, and the two known names resolve to their own
\* variants.  Selection on the command line must then accept every name, and
\* resolution must give the variant stated.
C11_UnknownNameDefaults ==
    /\ call.fn = "Arguments::algorithm" => call.parsed.ok
    /\ call.fn = "get_plotting_algorithm" =>
          /\ call.name = "burning_ship" =>
                /\ call.variant = "BurningShip"
                /\ call.result = BurningShip_calculate(call.c, 0, call.limit)
          /\ call.name # "burning_ship" =>
                /\ call.variant = "EscapeTime"
                /\ call.result = EscapeTime_calculate(call.c, 0, call.limit)

(***************************************************************************)
(* Completion: the escape loops one iteration at a time, and the band      *)
(* renderer under fair scheduling                                          *)
(***************************************************************************)
MaxLoopLimit == 4

\* the points the loops are run on
LoopPoints ==
    {Complex(FZero(0), FZero(0)), Complex(Dec(-75, 100), Dec(3, 10)),
     Complex(FromInt(1), FromInt(1)), Complex(FromInt(-2), FromInt(1)),
     Complex(FromInt(6), FZero(0)), Complex(FNaN, FZero(0)),
     Complex(FInf(0), FInf(0))}

\* algorithms.rs 10-24: one pass of the for loop of EscapeTime::calculate, or
\* the return after its last pass
EscapeTime_iterate(l) ==
    IF l.i >= l.limit
    THEN [l EXCEPT !.returned = TRUE, !.result = None]
    ELSE IF FGt(norm_sqr(l.z), FromInt(32))
    THEN [l EXCEPT !.returned = TRUE, !.result = Some(l.i)]
    ELSE [l EXCEPT !.z = CAdd(CMul(l.z, l.z), l.c), !.i = l.i + 1, !.steps = l.steps + 1]

\* algorithms.rs 30-44: one pass of the while loop of BurningShip::calculate,
\* or the return after the loop
BurningShip_iterate(l) ==
    IF FLe(norm_sqr(l.z), FromInt(4)) /\ l.i < l.limit
    THEN LET z == Complex(FAbs(l.z.im), FAbs(l.z.im))
         IN  [l EXCEPT !.z = CAdd(CMul(z, z), l.c), !.i = l.i + 1, !.steps = l.steps + 1]
    ELSE [l EXCEPT !.returned = TRUE,
                   !.result = IF l.i = l.limit THEN None ELSE Some(l.i)]

\* a call of an escape algorithm is about to start
InitLoop ==
    /\ MainIdle
    /\ \E algorithm \in {"EscapeTime", "BurningShip"}, c \in LoopPoints,
          limit \in 0..MaxLoopLimit :
          call = [fn |-> algorithm, c |-> c, limit |-> limit,
                  z |-> Complex(FZero(0), FZero(0)), i |-> 0, steps |-> 0,
                  returned |-> FALSE, result |-> None]

\* the program renders an image, or an escape algorithm is called
InitRun == Init \/ InitLoop

\* whether call holds a call of an escape algorithm that has not returned
Looping(algorithm) ==
    /\ pc = "idle"
    /\ call.fn = algorithm
    /\ ~call.returned

EscapeTimeIterate ==
    /\ Looping("EscapeTime")
    /\ call' = EscapeTime_iterate(call)
    /\ UNCHANGED MainVars

BurningShipIterate ==
    /\ Looping("BurningShip")
    /\ call' = BurningShip_iterate(call)
    /\ UNCHANGED MainVars

NextRun == Next \/ EscapeTimeIterate \/ BurningShipIterate

\* whether some thread can compute: the main thread is at a turn of the loop
\* over the bands, a band thread is in render, or an escape loop has not
\* returned.  These are the conditions under which Spawn, RenderStep(i),
\* EscapeTimeIterate and BurningShipIterate are enabled.
CanCompute ==
    \/ pc = "spawn" /\ Len(workers) < Len(bands)
    \/ \E i \in 1..Len(workers) : workers[i].state = "running"
    \/ Looping("EscapeTime")
    \/ Looping("BurningShip")

\* a step of Spawn, RenderStep(i), EscapeTimeIterate or BurningShipIterate:
\* they are the steps that change workers or call
Compute == <<workers, call>>' # <<workers, call>>

\* The operating system schedules the threads: the main thread takes the steps
\* it can take, and while some thread can compute, some thread computes.  Both
\* are weak fairness; for Compute it is written out as
\* []<>~ENABLED <<A>>_vars \/ []<><<A>>_vars, with CanCompute in the place of
\* ENABLED <<Compute>>_vars.
FairSpec ==
    /\ InitRun
    /\ [][NextRun]_vars
    /\ WF_vars(Alloc)
    /\ WF_vars(SpawnEnd)
    /\ WF_vars(Join)
    /\ WF_vars(WriteImage)
    /\ ([]<>~CanCompute \/ []<><<Compute>>_vars)

\* an escape computation has returned what the algorithm's function returns,
\* after at most limit recurrence steps
LoopReturned ==
    /\ pc = "idle"
    /\ call.returned
    /\ call.steps <= call.limit
    /\ call.result = calculate(call.fn, call.c, 0, call.limit)

\* C12: rendering runs to completion: every escape computation ends after at
\* most limit recurrence steps and returns a result, and once the bands are cut
\* every band worker eventually finishes its band and the render reaches the
\* point where all bands are done, from which main hands the buffer to
\* write_image and ends, normally or on the error of write_image, under fair
\* scheduling.
C12_RunsToCompletion ==
    /\ (pc = "idle") ~> LoopReturned
    /\ (pc = "spawn") ~> (AllBandsRendered /\ pc = "write")
    /\ (pc = "write") ~> (AllBandsRendered /\ encoded.given /\ pc \in {"done", "panicked"})

\* the render of an image of several bands has ended with every band done
C12_Witness ==
    /\ pc = "done"
    /\ Len(workers) >= 5
    /\ AllBandsRendered
    /\ encoded.bounds = main_bounds

(***************************************************************************)
(* The band renderer: the sizes of the bands                               *)
(***************************************************************************)
\* whether main has cut the buffer into bands
BandsCut == main_bounds[1] > 0 /\ (pc \in {"spawn", "join", "write", "done"} \/ encoded.given)

\* the number of rows of band i
RowsOfBand(i) == bands[i].len \div main_bounds[1]

\* C14: when the image is partitioned by thread count, every band except the
\* last has exactly floor(height / thread_count) rows and the final band
\* absorbs the remainder: it has floor(height / thread_count) rows plus the
\* height mod thread_count leftover rows.
C14_LastBandAbsorbsRemainder ==
    BandsCut =>
        \A i \in 1..Len(bands) :
            RowsOfBand(i) = IF i < Len(bands)
                            THEN main_bounds[2] \div threads
                            ELSE (main_bounds[2] \div threads) + (main_bounds[2] % threads)

\* C14 as it holds: every band except the last has exactly
\* floor(height / thread_count) + 1 rows, and the final band has the rows that
\* are left, at least one and at most as many as the others; there are
\* ceil(height / (floor(height / thread_count) + 1)) bands, never more than
\* thread_count.
C14_LastBandHoldsRemainder ==
    BandsCut =>
        LET rows_per_band == main_bounds[2] \div threads + 1
            n == Len(bands)
        IN  /\ n = (main_bounds[2] + rows_per_band - 1) \div rows_per_band
            /\ n <= threads
            /\ \A i \in 1..n :
                  /\ bands[i].len = RowsOfBand(i) * main_bounds[1]
                  /\ i < n => RowsOfBand(i) = rows_per_band
                  /\ i = n => /\ RowsOfBand(i) = main_bounds[2] - (n - 1) * rows_per_band
                              /\ RowsOfBand(i) >= 1
                              /\ RowsOfBand(i) <= rows_per_band

\* an image of 9 rows has been cut into four bands of 2 rows and one of 1 row
C14_Witness ==
    /\ BandsCut
    /\ main_bounds[2] = 9
    /\ Len(bands) = 5
    /\ \A i \in 1..4 : RowsOfBand(i) = 2
    /\ RowsOfBand(5) = 1

(***************************************************************************)
(* The escape algorithms against their recurrences                         *)
(***************************************************************************)
RECURSIVE ClassicOrbit(_, _)
\* algorithms.rs 11, 20: z_k of z_0 = 0, z_{k+1} = z_k^2 + c
ClassicOrbit(c, k) ==
    IF k = 0 THEN Complex(FZero(0), FZero(0))
    ELSE LET z == ClassicOrbit(c, k - 1)
         IN  CAdd(CMul(z, z), c)

RECURSIVE ShipOrbit(_, _)
\* algorithms.rs 30, 35-36: z_k of z_0 = 0, z_{k+1} = (|im z_k| + i*|im z_k|)^2 + c
ShipOrbit(c, k) ==
    IF k = 0 THEN Complex(FZero(0), FZero(0))
    ELSE LET z == ShipOrbit(c, k - 1)
             folded == Complex(FAbs(z.im), FAbs(z.im))
         IN  CAdd(CMul(folded, folded), c)

\* Some(k) for the least k in a set of indices, None for the empty set
LeastOf(K) == IF K = {} THEN None ELSE Some(CHOOSE k \in K : \A j \in K : k <= j)

\* C15: Burning Ship has the same iteration budget and escape test shape as
\* Classic: BurningShip::calculate returns Some(k) exactly when k is the least
\* index with |z_k|^2 > 4 and k < limit, and None otherwise, just as Classic
\* returns Some(k) exactly for the least k < limit with |z_k|^2 > 32.
C15_SameEscapeTest ==
    /\ call.fn = "BurningShip" =>
          call.result = LeastOf({k \in 0..(call.limit - 1) :
                                    FGt(norm_sqr(ShipOrbit(call.c, k)), FromInt(4))})
    /\ call.fn = "EscapeTime" =>
          call.result = LeastOf({k \in 0..(call.limit - 1) :
                                    FGt(norm_sqr(ClassicOrbit(call.c, k)), FromInt(32))})

\* C16: neither escape algorithm ever returns Some(0): every count returned is
\* at least 1, and for limit <= 1 every point yields None and every byte of a
\* rendered buffer is 0.
C16_NeverSomeZero ==
    /\ call.fn \in {"EscapeTime", "BurningShip", "escape_time"} =>
          /\ call.result # Some(0)
          /\ call.result # None => call.result[1] >= 1
          /\ call.limit <= 1 => call.result = None
    /\ (call.fn = "render" /\ call.limit <= 1) =>
          \A p \in 1..Len(call.result) : call.result[p] = UOk(0)

\* with limit 1 a buffer of four pixels was rendered on a region whose points
\* escape at once with any larger limit
C16_Witness ==
    /\ call.fn = "render"
    /\ call.limit = 1
    /\ call.bounds = <<2, 2>>
    /\ call.c = Complex(FromInt(6), FromInt(6))
    /\ call.result = <<UOk(0), UOk(0), UOk(0), UOk(0)>>

====
